---- MODULE Spec2Model ----
(***************************************************************************)
(* Research paper podcast system: the pipeline of main.py (run_system and  *)
(* the functions it calls) and the REST handlers of api.py and main.py.    *)
(* Strings are sequences of one-character strings, so that replace, count, *)
(* split, strip, lower and slicing are computed as Python computes them.   *)
(***************************************************************************)
EXTENDS Integers, Sequences, FiniteSets, TLC

VARIABLES
    fn_pc, fn_text, fn_topics, fn_out,   \* a single call of classify_topic or generate_summary
    fs,              \* the output directory: path -> what the file holds
    pc,              \* position of the request in its handler
    req,             \* the request: front end, data field, uploads, doi_list, urls, topic_list
    pdf_paths,       \* pdf_paths of the handler, pdf_files of run_system
    pos,             \* index of the next upload to save, then of the next item of run_system
    all_summaries, citations, result,    \* locals and return value of run_system
    response,        \* what the handler answered
    invoked,         \* run_system has been called for the request
    n_summ, n_audio, \* calls of generate_summary and of generate_audio made by run_system
    writes,          \* paths handed to tts.save, in call order
    resolve_log,     \* per DOI processed: TRUE iff resolve_doi returned metadata
    synth_in,        \* text handed to generate_summary by synthesize_across_papers
    engine_failed,   \* the text-to-speech engine failed on a text it was given
    raised_by,       \* the call whose exception ended run_system, "none" if none did
    fetch_log,       \* per URL processed: TRUE iff fetch_url_text got the page
    tmp_written,     \* temporary PDF copies the API handler wrote
    unlink_failed,   \* temporary PDF copies whose os.unlink failed
    del_response     \* answer of DELETE /files

fnvars == <<fn_pc, fn_text, fn_topics, fn_out>>

runvars == <<pos, all_summaries, citations, n_summ, n_audio, writes, resolve_log,
             synth_in, engine_failed, raised_by, fetch_log>>

reqvars == <<req, pdf_paths, result, response, invoked, tmp_written, unlink_failed>>

pipevars == <<fs, pc, runvars, reqvars, del_response>>

vars == <<fnvars, pipevars>>

----------------------------------------------------------------------------
(* Bounds of the model *)

MaxTextLen == 3
MaxTopics == 2
MaxParas == 2
MaxItems == 2
MaxFiles == 4

(* Program constants *)

MinParaLen == 100
MaxUrlName == 30

----------------------------------------------------------------------------
(* Python str operations *)

Rep(c, n) == [i \in 1..n |-> c]

Take(s, n) == SubSeq(s, 1, IF Len(s) < n THEN Len(s) ELSE n)

MatchAt(s, sub, i) ==
    /\ i + Len(sub) - 1 <= Len(s)
    /\ SubSeq(s, i, i + Len(sub) - 1) = sub

EndsWith(s, suf) ==
    /\ Len(suf) <= Len(s)
    /\ SubSeq(s, Len(s) - Len(suf) + 1, Len(s)) = suf

\* the index of the leftmost occurrence of sub in s at or after i, 0 if none
NextMatch(s, sub, i) ==
    LET found == {j \in i..(Len(s) - Len(sub) + 1) : MatchAt(s, sub, j)}
    IN IF found = {} THEN 0 ELSE CHOOSE j \in found : \A k \in found : j <= k

RECURSIVE ReplaceFrom(_, _, _, _)
ReplaceFrom(s, old, new, i) ==
    LET j == NextMatch(s, old, i)
    IN IF j = 0 THEN SubSeq(s, i, Len(s))
       ELSE SubSeq(s, i, j - 1) \o new \o ReplaceFrom(s, old, new, j + Len(old))

\* str.replace(old, new) with a non-empty old : leftmost, non-overlapping
Replace(s, old, new) == ReplaceFrom(s, old, new, 1)

RECURSIVE CountFrom(_, _, _)
CountFrom(s, sub, i) ==
    LET j == NextMatch(s, sub, i)
    IN IF j = 0 THEN 0 ELSE 1 + CountFrom(s, sub, j + Len(sub))

\* str.count(sub) : non-overlapping occurrences; the empty sub occurs len+1 times
Count(s, sub) == IF sub = <<>> THEN Len(s) + 1 ELSE CountFrom(s, sub, 1)

LowerChar(c) ==
    CASE c = "A" -> "a"
      [] c = "B" -> "b"
      [] c = "U" -> "u"
      [] c = "S" -> "s"
      [] OTHER -> c

\* str.lower()
Lower(s) == [i \in 1..Len(s) |-> LowerChar(s[i])]

Whitespace == {" ", "\n", "\t"}

\* str.strip() : leading and trailing whitespace removed
Strip(s) ==
    LET solid == {i \in 1..Len(s) : s[i] \notin Whitespace}
    IN IF solid = {} THEN <<>>
       ELSE SubSeq(s, CHOOSE i \in solid : \A k \in solid : i <= k,
                      CHOOSE i \in solid : \A k \in solid : k <= i)

RECURSIVE SplitFrom(_, _, _)
SplitFrom(s, sep, i) ==
    LET j == NextMatch(s, sep, i)
    IN IF j = 0 THEN <<SubSeq(s, i, Len(s))>>
       ELSE <<SubSeq(s, i, j - 1)>> \o SplitFrom(s, sep, j + Len(sep))

\* str.split(sep) with a non-empty sep : always at least one piece
Split(s, sep) == SplitFrom(s, sep, 1)

Elems(seq) == {seq[i] : i \in 1..Len(seq)}

RECURSIVE SeqsUpTo(_, _)
SeqsUpTo(S, n) ==
    IF n = 0 THEN {<<>>}
    ELSE LET shorter == SeqsUpTo(S, n - 1)
         IN shorter \cup {Append(s, x) : s \in shorter, x \in S}

RECURSIVE Join(_, _)
Join(parts, sep) ==
    IF parts = <<>> THEN <<>>
    ELSE IF Len(parts) = 1 THEN parts[1]
    ELSE parts[1] \o sep \o Join(Tail(parts), sep)

----------------------------------------------------------------------------
(* 4. Topic classification *)

Unspecified == <<"U", "n", "s", "p", "e", "c", "i", "f", "i", "e", "d">>

TopicKey(text, topic) == Count(Lower(text), Lower(topic))

RECURSIVE MaxByKey(_, _, _, _)
\* the builtin max(iterable, key=...) : the first maximal element is kept
MaxByKey(topics, text, i, best) ==
    IF i > Len(topics) THEN best
    ELSE IF TopicKey(text, topics[i]) > TopicKey(text, best)
         THEN MaxByKey(topics, text, i + 1, topics[i])
         ELSE MaxByKey(topics, text, i + 1, best)

RECURSIVE MaxByKeyLast(_, _, _, _)
MaxByKeyLast(topics, text, i, best) ==
    IF i > Len(topics) THEN best
    ELSE IF TopicKey(text, topics[i]) >= TopicKey(text, best)
         THEN MaxByKeyLast(topics, text, i + 1, topics[i])
         ELSE MaxByKeyLast(topics, text, i + 1, best)

classify_topic_last(text, topics) ==
    IF topics # <<>> THEN MaxByKeyLast(topics, text, 2, topics[1]) ELSE Unspecified

classify_topic_nodefault(text, topics) ==
    IF topics # <<>> THEN MaxByKey(topics, text, 2, topics[1]) ELSE <<>>

classify_topic(text, topics) ==
    IF topics # <<>> THEN MaxByKey(topics, text, 2, topics[1]) ELSE Unspecified

----------------------------------------------------------------------------
(* 5. Summary generation *)

Placeholder == <<"S", "u", "m", "m", "a", "r", "y", " ", "u", "n", "a", "v", "a", "i", "l", "a", "b", "l", "e", ".">>

BlankLine == <<"\n", "\n">>

\* the stripped paragraphs longer than MinParaLen characters, in order
Paragraphs(text) ==
    LET pieces == Split(text, BlankLine)
        keep == SelectSeq(pieces, LAMBDA p : Len(Strip(p)) > MinParaLen)
    IN [i \in 1..Len(keep) |-> Strip(keep[i])]

\* what the summarization model answers with for one paragraph: min_length=50
\* tokens make it longer than MinParaLen characters
SumLong == <<"a", "B", " ", "a", " ">> \o Rep("x", MinParaLen)

ModelOutputs == {SumLong}

\* SUMMARY_PIPELINE(batch, ...) is the pretrained model: a call raises, or it
\* returns one summary per paragraph of the batch (none for the empty batch)
ModelOracles == [raised : BOOLEAN, out : [1..MaxParas -> ModelOutputs]]

generate_summary(text, model) ==
    LET paragraphs == Paragraphs(text)
    IN IF model.raised THEN Placeholder
       ELSE Join([i \in 1..Len(paragraphs) |-> model.out[i]], <<" ">>)

\* everything generate_summary(text) can return
Summaries(text) == {generate_summary(text, model) : model \in ModelOracles}

----------------------------------------------------------------------------
(* 6. Cross-paper synthesis *)

SynthesisInputLast(summaries) == summaries[Len(summaries)]

\* " ".join(summaries)
SynthesisInput(summaries) == Join(summaries, <<" ">>)

synthesize_across_papers(summaries, model) ==
    generate_summary(SynthesisInput(summaries), model)

----------------------------------------------------------------------------
(* The output directory and 7. audio synthesis *)

OUTPUT_DIR == <<"o", "u", "t", "p", "u", "t", "s">>

Mp3 == <<".", "m", "p", "3">>

PdfSuffix == <<".", "p", "d", "f">>

None == <<"<None>">>

\* os.path.join(dir, name)
PathJoin(dir, name) ==
    IF name # <<>> /\ name[1] = "/" THEN name ELSE dir \o <<"/">> \o name

\* os.path.basename(path)
Basename(path) ==
    LET slashes == {i \in 1..Len(path) : path[i] = "/"}
    IN IF slashes = {} THEN path
       ELSE SubSeq(path, (CHOOSE i \in slashes : \A k \in slashes : k <= i) + 1, Len(path))

Remove(files, gone) == [p \in DOMAIN files \ gone |-> files[p]]

Put(files, path, content) ==
    [p \in DOMAIN files \cup {path} |-> IF p = path THEN content ELSE files[p]]

\* output_path of generate_audio
AudioPath(filename) == PathJoin(OUTPUT_DIR, filename \o Mp3)

\* gTTS(text=...) refuses the empty text before any file is opened
CanSpeak(text) == text # <<>>

SavedUnlessPresent(files, filename, source, ok) ==
    IF AudioPath(filename) \in DOMAIN files
    THEN files
    ELSE Put(files, AudioPath(filename), [kind |-> "audio", src |-> source, whole |-> ok, locked |-> FALSE])

\* tts.save(output_path) : the file is opened for writing, then the audio is
\* streamed into it; a failure of the engine leaves the truncated file behind
Saved(files, filename, source, ok) ==
    Put(files, AudioPath(filename), [kind |-> "audio", src |-> source, whole |-> ok, locked |-> FALSE])

----------------------------------------------------------------------------
(* What run_system reads from outside *)

TextLong == <<"a", " ", "b", " ">> \o Rep("x", MinParaLen)

\* extract_text_from_pdf and fetch_url_text : no text at all, or one long paragraph
SourceTexts == {<<>>, TextLong}

\* resolve_doi : the metadata of the registry; an author without a family
\* name is None
MetaFull ==
    [title |-> <<"T">>, journal |-> <<"J">>, authors |-> <<<<"K">>, <<"L">>>>,
     abstract |-> <<"<", "j", "a", "t", "s", ":", "p", ">">> \o Rep("x", MinParaLen - 5) \o <<"<", "/", "j", "a", "t", "s", ":", "p", ">">>]

MetaBare == [title |-> <<"T">>, journal |-> <<>>, authors |-> <<>>, abstract |-> <<>>]

MetaAnon == [title |-> <<"T">>, journal |-> <<"J">>, authors |-> <<None>>, abstract |-> <<>>]

ResolveOutcomes ==
    {[kind |-> k, meta |-> MetaBare] : k \in {"raise", "error"}}
        \cup {[kind |-> "ok", meta |-> m] : m \in {MetaFull, MetaBare, MetaAnon}}

\* abstract of run_system, with the paragraph tags of the registry removed
CleanAbstract(abstract) ==
    IF abstract # <<>>
    THEN Replace(Replace(abstract, <<"<", "j", "a", "t", "s", ":", "p", ">">>, <<>>), <<"<", "/", "j", "a", "t", "s", ":", "p", ">">>, <<>>)
    ELSE <<>>

\* meta_text of run_system
MetaText(metadata) ==
    <<"T", "i", "t", "l", "e", ":", " ">> \o metadata.title \o <<"\n", "J", "o", "u", "r", "n", "a", "l", ":", " ">> \o metadata.journal
        \o <<"\n", "A", "u", "t", "h", "o", "r", "s", ":", " ">> \o Join(metadata.authors, <<",", " ">>)
        \o <<"\n", "\n", "A", "b", "s", "t", "r", "a", "c", "t", ":", " ">> \o CleanAbstract(metadata.abstract)

\* file name of the audio of a PDF, of a DOI and of a URL
PdfFilename(pdf_path) == Replace(Basename(pdf_path), PdfSuffix, <<>>)

DoiFilename(doi) == Replace(doi, <<"/">>, <<"_">>)

UrlFilename(url) ==
    Replace(Replace(Replace(url, <<"h", "t", "t", "p", "s", ":", "/", "/">>, <<>>), <<"h", "t", "t", "p", ":", "/", "/">>, <<>>), <<"/">>, <<"_">>)

TrimFilenameLoose(filename) == Take(filename, MaxUrlName + 1)

TrimFilename(filename) == Take(filename, MaxUrlName)

----------------------------------------------------------------------------
(* Requests *)

D1 == <<"1", "0", ".", "1", "/", "a">>

D2 == <<"1", "0", ".", "1", "/", "b">>

DoiSet == {D1, D2}

U1 == <<"h", "t", "t", "p", "s", ":", "/", "/", "a", "/", "b">>

U2 == <<"h", "t", "t", "p", ":", "/", "/">> \o Rep("x", MaxUrlName - 1) \o <<"/", "1">>

U3 == <<"h", "t", "t", "p", ":", "/", "/">> \o Rep("x", MaxUrlName - 1) \o <<"/", "2">>

UrlSet == {U1, U2, U3}

UploadNames == {<<"p", ".", "p", "d", "f">>, <<"n", ".", "t", "x", "t">>}

RunTopicLists == {<<>>, <<<<"b">>, <<"a">>>>}

\* names NamedTemporaryFile can come up with
Digits == <<"1", "2", "3", "4", "5", "6", "7", "8", "9">>

TmpNames == {<<"t", "m", "p">> \o <<Digits[i]>> \o PdfSuffix : i \in 1..MaxItems}

GradioDir == <<"/", "t", "m", "p", "/", "g", "r", "a", "d", "i", "o">>

Payloads ==
    {r \in [uploads : SeqsUpTo(UploadNames, MaxItems),
            doi_list : SeqsUpTo(DoiSet, MaxItems),
            urls : SeqsUpTo(UrlSet, MaxItems),
            topic_list : RunTopicLists] :
        Len(r.uploads) + Len(r.doi_list) + Len(r.urls) <= MaxItems}

\* a data field that is no JSON object carries no doi_list, urls or topic_list
UploadsOnly ==
    {r \in Payloads : r.doi_list = <<>> /\ r.urls = <<>> /\ r.topic_list = <<>>}

NoRequest ==
    [flow |-> "none", data |-> "ok", uploads |-> <<>>, doi_list |-> <<>>,
     urls |-> <<>>, topic_list |-> <<>>]

Request(flow, data, payload) ==
    [flow |-> flow, data |-> data, uploads |-> payload.uploads,
     doi_list |-> payload.doi_list, urls |-> payload.urls,
     topic_list |-> payload.topic_list]

EmptyResult == [synthesis |-> <<>>, synthesis_audio |-> None, citations |-> <<>>]

NoResponse == [status |-> 0, kind |-> "none"]

OldFile == [kind |-> "old", src |-> <<>>, whole |-> TRUE, locked |-> FALSE]

\* an entry that os.remove and os.unlink cannot remove
LockedFile == [kind |-> "old", src |-> <<>>, whole |-> TRUE, locked |-> TRUE]

DirEmpty == [p \in {} |-> OldFile]

DirOld ==
    [p \in {PathJoin(OUTPUT_DIR, n) : n \in {<<"f", "i", "n", "a", "l", "_", "s", "y", "n", "t", "h", "e", "s", "i", "s", ".", "m", "p", "3">>, <<"n", ".", "t", "x", "t">>}} |-> OldFile]

InitialDirs == {DirOld}

----------------------------------------------------------------------------
(* The request handlers and run_system *)

RunIdle ==
    /\ pos = 1
    /\ all_summaries = <<>>
    /\ citations = <<>>
    /\ n_summ = 0
    /\ n_audio = 0
    /\ writes = <<>>
    /\ resolve_log = <<>>
    /\ synth_in = None
    /\ engine_failed = FALSE
    /\ raised_by = "none"
    /\ fetch_log = <<>>

ReqIdle ==
    /\ req = NoRequest
    /\ pdf_paths = <<>>
    /\ result = EmptyResult
    /\ response = NoResponse
    /\ invoked = FALSE
    /\ tmp_written = {}
    /\ unlink_failed = {}

FnIdle ==
    /\ fn_pc = "off"
    /\ fn_text = <<>>
    /\ fn_topics = <<>>
    /\ fn_out = <<>>

Init ==
    /\ fs \in InitialDirs
    /\ pc = "idle"
    /\ RunIdle
    /\ ReqIdle
    /\ del_response = NoResponse
    /\ FnIdle

Respond(status, kind) ==
    /\ response' = [status |-> status, kind |-> kind]
    /\ pc' = "done"

\* api.py POST /process : the data field is parsed
ApiProcessPapers ==
    /\ pc = "idle"
    /\ \E data \in {"ok", "bad", "nonobject"}, payload \in Payloads :
        /\ data # "ok" => payload \in UploadsOnly
        /\ req' = Request("api", data, payload)
        /\ CASE data = "bad" -> Respond(400, "error")
             [] data = "nonobject" -> Respond(500, "error")
             [] OTHER -> pc' = "api_save" /\ UNCHANGED response
    /\ UNCHANGED <<fs, runvars, pdf_paths, result, invoked, tmp_written,
                   unlink_failed, del_response, fnvars>>

\* api.py POST /process : one upload is copied into a fresh temporary file
ApiSavePdf ==
    /\ pc = "api_save"
    /\ pos <= Len(req.uploads)
    /\ \E name \in TmpNames, ok \in BOOLEAN :
        LET temp_file == PathJoin(OUTPUT_DIR, name)
        IN /\ temp_file \notin DOMAIN fs
           /\ IF ok
              THEN /\ fs' = Put(fs, temp_file,
                                [kind |-> "upload", src |-> req.uploads[pos],
                                 whole |-> TRUE, locked |-> FALSE])
                   /\ pdf_paths' = Append(pdf_paths, temp_file)
                   /\ tmp_written' = tmp_written \cup {temp_file}
                   /\ pos' = pos + 1
                   /\ UNCHANGED <<pc, response>>
              ELSE /\ Respond(500, "error")
                   /\ UNCHANGED <<fs, pdf_paths, tmp_written, pos>>
    /\ UNCHANGED <<req, result, invoked, unlink_failed, del_response, fnvars,
                   all_summaries, citations, n_summ, n_audio, writes,
                   resolve_log, synth_in, engine_failed, raised_by, fetch_log>>

ApiValidateListsOnly ==
    /\ pc = "api_save"
    /\ pos > Len(req.uploads)
    /\ IF req.doi_list = <<>> /\ req.urls = <<>>
       THEN /\ Respond(400, "error")
            /\ UNCHANGED <<invoked, pos>>
       ELSE /\ invoked' = TRUE
            /\ pc' = "run"
            /\ pos' = 1
            /\ UNCHANGED response
    /\ UNCHANGED <<fs, req, pdf_paths, result, tmp_written, unlink_failed,
                   del_response, fnvars, all_summaries, citations, n_summ,
                   n_audio, writes, resolve_log, synth_in, engine_failed,
                   raised_by, fetch_log>>

\* api.py POST /process : the inputs are validated and run_system is called
ApiValidate ==
    /\ pc = "api_save"
    /\ pos > Len(req.uploads)
    /\ IF pdf_paths = <<>> /\ req.doi_list = <<>> /\ req.urls = <<>>
       THEN /\ Respond(400, "error")
            /\ UNCHANGED <<invoked, pos>>
       ELSE /\ invoked' = TRUE
            /\ pc' = "run"
            /\ pos' = 1
            /\ UNCHANGED response
    /\ UNCHANGED <<fs, req, pdf_paths, result, tmp_written, unlink_failed,
                   del_response, fnvars, all_summaries, citations, n_summ,
                   n_audio, writes, resolve_log, synth_in, engine_failed, raised_by, fetch_log>>

\* main.py POST /process : the data field is parsed
MainProcessPapers ==
    /\ pc = "idle"
    /\ \E data \in {"ok", "bad", "nonobject"}, payload \in Payloads :
        /\ data # "ok" => payload \in UploadsOnly
        /\ req' = Request("main", data, payload)
        /\ IF data = "ok"
           THEN pc' = "main_save" /\ UNCHANGED response
           ELSE Respond(200, "error")
    /\ UNCHANGED <<fs, runvars, pdf_paths, result, invoked, tmp_written,
                   unlink_failed, del_response, fnvars>>

\* main.py POST /process : one upload named *.pdf is copied under its own name
MainSavePdf ==
    /\ pc = "main_save"
    /\ pos <= Len(req.uploads)
    /\ LET filename == req.uploads[pos]
           temp_path == PathJoin(OUTPUT_DIR, filename)
       IN IF EndsWith(filename, PdfSuffix)
          THEN \E ok \in BOOLEAN :
                 /\ fs' = Put(fs, temp_path,
                              [kind |-> "upload", src |-> filename,
                               whole |-> ok, locked |-> FALSE])
                 /\ IF ok
                    THEN /\ pdf_paths' = Append(pdf_paths, temp_path)
                         /\ pos' = pos + 1
                         /\ UNCHANGED <<pc, response>>
                    ELSE /\ Respond(200, "error")
                         /\ UNCHANGED <<pdf_paths, pos>>
          ELSE /\ pos' = pos + 1
               /\ UNCHANGED <<fs, pdf_paths, pc, response>>
    /\ UNCHANGED <<req, result, invoked, tmp_written, unlink_failed,
                   del_response, fnvars, all_summaries, citations, n_summ,
                   n_audio, writes, resolve_log, synth_in, engine_failed, raised_by, fetch_log>>

\* main.py POST /process : run_system is called with whatever was supplied
MainRunSystem ==
    /\ pc = "main_save"
    /\ pos > Len(req.uploads)
    /\ invoked' = TRUE
    /\ pc' = "run"
    /\ pos' = 1
    /\ UNCHANGED <<fs, req, pdf_paths, result, response, tmp_written,
                   unlink_failed, del_response, fnvars, all_summaries,
                   citations, n_summ, n_audio, writes, resolve_log, synth_in, engine_failed, raised_by, fetch_log>>

\* gradio_interface.py process_papers_and_create_podcast, up to run_system
GradioProcess ==
    /\ pc = "idle"
    /\ \E payload \in Payloads :
        /\ req' = Request("gradio", "ok", payload)
        /\ pdf_paths' = [i \in 1..Len(payload.uploads) |->
                            PathJoin(GradioDir, payload.uploads[i])]
        /\ IF payload.uploads = <<>> /\ payload.doi_list = <<>> /\ payload.urls = <<>>
           THEN /\ Respond(0, "error")
                /\ UNCHANGED invoked
           ELSE /\ invoked' = TRUE
                /\ pc' = "run"
                /\ UNCHANGED response
    /\ UNCHANGED <<fs, runvars, result, tmp_written, unlink_failed,
                   del_response, fnvars>>

NumPdfs == Len(pdf_paths)

NumDois == Len(req.doi_list)

NumUrls == Len(req.urls)

SkipsItem(by) ==
    /\ raised_by' = by
    /\ pos' = pos + 1
    /\ UNCHANGED <<fs, pc, all_summaries, citations, n_summ, n_audio, writes,
                   engine_failed>>

\* an exception leaves run_system
Aborts(by) ==
    /\ pc' = "raised"
    /\ raised_by' = by
    /\ UNCHANGED <<fs, pos, all_summaries, citations, n_summ, n_audio, writes,
                   engine_failed>>

AppendCitationFront(cits, source, topic, audio_path) ==
    <<[source |-> source, topic |-> topic, audio |-> audio_path]>> \o cits

\* citations.append({"source": ..., "topic": ..., "audio": ...})
AppendCitation(cits, source, topic, audio_path) ==
    Append(cits, [source |-> source, topic |-> topic, audio |-> audio_path])

\* run_system, one item : summarize, classify, synthesize audio, append
ProcessItem(source, text, filename) ==
    \E summary \in Summaries(text), tts_ok \in BOOLEAN :
        LET topic == classify_topic(summary, req.topic_list)
            audio_path == AudioPath(filename)
        IN /\ n_summ' = n_summ + 1
           /\ n_audio' = n_audio + 1
           /\ IF CanSpeak(summary)
              THEN /\ fs' = Saved(fs, filename, source, tts_ok)
                   /\ writes' = Append(writes, audio_path)
                   /\ engine_failed' = ~tts_ok
              ELSE UNCHANGED <<fs, writes, engine_failed>>
           /\ IF CanSpeak(summary) /\ tts_ok
              THEN /\ all_summaries' = Append(all_summaries, summary)
                   /\ citations' = AppendCitation(citations, source, topic, audio_path)
                   /\ pos' = pos + 1
                   /\ UNCHANGED <<pc, raised_by>>
              ELSE /\ pc' = "raised"
                   /\ raised_by' = "generate_audio"
                   /\ UNCHANGED <<all_summaries, citations, pos>>

\* run_system : the next PDF
ProcessPdf ==
    /\ pc = "run"
    /\ pos <= NumPdfs
    /\ \/ Aborts("extract_text_from_pdf")
       \/ \E raw_text \in SourceTexts :
            ProcessItem(pdf_paths[pos], raw_text, PdfFilename(pdf_paths[pos]))
    /\ UNCHANGED <<reqvars, resolve_log, synth_in, fetch_log, del_response, fnvars>>

\* "error" in metadata
IsErrorMarker(metadata) == metadata.kind = "error"

\* run_system : the next DOI
ProcessDoi ==
    /\ pc = "run"
    /\ pos > NumPdfs
    /\ pos <= NumPdfs + NumDois
    /\ \E metadata \in ResolveOutcomes :
        LET doi == req.doi_list[pos - NumPdfs]
        IN IF metadata.kind = "raise"
           THEN Aborts("resolve_doi") /\ UNCHANGED resolve_log
           ELSE /\ resolve_log' = Append(resolve_log, metadata.kind = "ok")
                /\ IF IsErrorMarker(metadata)
                   THEN /\ pos' = pos + 1
                        /\ UNCHANGED <<fs, pc, all_summaries, citations,
                                       n_summ, n_audio, writes, engine_failed,
                                       raised_by>>
                   ELSE IF None \in Elems(metadata.meta.authors)
                        THEN Aborts("join")
                        ELSE ProcessItem(doi, MetaText(metadata.meta), DoiFilename(doi))
    /\ UNCHANGED <<reqvars, synth_in, fetch_log, del_response, fnvars>>

\* fetch_url_text : the text of the page, "" when anything raised
fetch_url_text(fetched, page) == IF fetched THEN page ELSE <<>>

\* run_system : the next URL
ProcessUrl ==
    /\ pc = "run"
    /\ pos > NumPdfs + NumDois
    /\ pos <= NumPdfs + NumDois + NumUrls
    /\ \E fetched \in BOOLEAN, page \in SourceTexts :
        LET url == req.urls[pos - NumPdfs - NumDois]
            content == fetch_url_text(fetched, page)
        IN /\ ~fetched => page = <<>>
           /\ fetch_log' = Append(fetch_log, fetched)
           /\ ProcessItem(url, content, TrimFilename(UrlFilename(url)))
    /\ UNCHANGED <<reqvars, resolve_log, synth_in, del_response, fnvars>>

FinalName == <<"f", "i", "n", "a", "l", "_", "s", "y", "n", "t", "h", "e", "s", "i", "s">>

AlwaysSynthesize(summaries) == TRUE

\* if all_summaries:
HasSummaries(summaries) == summaries # <<>>

\* run_system : the final cross-paper summary and the return value
FinalSynthesis ==
    /\ pc = "run"
    /\ pos > NumPdfs + NumDois + NumUrls
    /\ IF HasSummaries(all_summaries)
       THEN \E final_summary \in {synthesize_across_papers(all_summaries, model) :
                                       model \in ModelOracles},
               tts_ok \in BOOLEAN :
              LET text == SynthesisInput(all_summaries)
              IN /\ synth_in' = text
                 /\ n_summ' = n_summ + 1
                 /\ n_audio' = n_audio + 1
                 /\ IF CanSpeak(final_summary)
                    THEN /\ fs' = Saved(fs, FinalName, FinalName, tts_ok)
                         /\ writes' = Append(writes, AudioPath(FinalName))
                         /\ engine_failed' = ~tts_ok
                    ELSE UNCHANGED <<fs, writes, engine_failed>>
                 /\ IF CanSpeak(final_summary) /\ tts_ok
                    THEN /\ result' = [synthesis |-> final_summary,
                                       synthesis_audio |-> AudioPath(FinalName),
                                       citations |-> citations]
                         /\ pc' = "returned"
                         /\ UNCHANGED raised_by
                    ELSE /\ pc' = "raised"
                         /\ raised_by' = "generate_audio"
                         /\ UNCHANGED result
       ELSE /\ result' = [synthesis |-> <<>>, synthesis_audio |-> None,
                          citations |-> citations]
            /\ pc' = "returned"
            /\ UNCHANGED <<fs, synth_in, n_summ, n_audio, writes, engine_failed,
                           raised_by>>
    /\ UNCHANGED <<req, pdf_paths, response, invoked, tmp_written, unlink_failed,
                   pos, all_summaries, citations, resolve_log, fetch_log,
                   del_response, fnvars>>

\* api.py POST /process : the temporary copies are removed, the result returned
ApiReturn ==
    /\ pc = "returned"
    /\ req.flow = "api"
    /\ \E failed \in SUBSET (Elems(pdf_paths) \cap DOMAIN fs) :
        /\ fs' = Remove(fs, (Elems(pdf_paths) \cap DOMAIN fs) \ failed)
        /\ unlink_failed' = failed
    /\ Respond(200, "result")
    /\ UNCHANGED <<runvars, req, pdf_paths, result, invoked, tmp_written,
                   del_response, fnvars>>

\* api.py POST /process : except Exception
ApiError ==
    /\ pc = "raised"
    /\ req.flow = "api"
    /\ Respond(500, "error")
    /\ UNCHANGED <<fs, runvars, req, pdf_paths, result, invoked, tmp_written,
                   unlink_failed, del_response, fnvars>>

\* main.py POST /process and the Gradio callback : the result goes back as it is
PlainReturn ==
    /\ pc = "returned"
    /\ req.flow \in {"main", "gradio"}
    /\ Respond(IF req.flow = "main" THEN 200 ELSE 0, "result")
    /\ UNCHANGED <<fs, runvars, req, pdf_paths, result, invoked, tmp_written,
                   unlink_failed, del_response, fnvars>>

\* main.py POST /process and the Gradio callback : except Exception
PlainError ==
    /\ pc = "raised"
    /\ req.flow \in {"main", "gradio"}
    /\ Respond(IF req.flow = "main" THEN 200 ELSE 0, "error")
    /\ UNCHANGED <<fs, runvars, req, pdf_paths, result, invoked, tmp_written,
                   unlink_failed, del_response, fnvars>>

AudioSuffixesShort == {<<".", "m", "p", "3">>, <<".", "w", "a", "v">>}

\* filename.endswith(('.mp3', '.wav', '.m4a'))
AudioSuffixes == {<<".", "m", "p", "3">>, <<".", "w", "a", "v">>, <<".", "m", "4", "a">>}

IsAudioName(filename) == \E suffix \in AudioSuffixes : EndsWith(filename, suffix)

\* api.py DELETE /files
DeleteAllAudioFiles ==
    /\ del_response = NoResponse
    /\ LET listing == {p \in DOMAIN fs : IsAudioName(Basename(p))}
           stuck == {p \in listing : fs[p].locked}
       IN IF stuck = {}
          THEN /\ fs' = Remove(fs, listing)
               /\ del_response' = [status |-> 200, kind |-> "result",
                                   deleted_count |-> Cardinality(listing)]
          ELSE \E removed \in SUBSET (listing \ stuck) :
                 /\ fs' = Remove(fs, removed)
                 /\ del_response' = [status |-> 500, kind |-> "error",
                                     deleted_count |-> 0]
    /\ UNCHANGED <<pc, runvars, reqvars, fnvars>>

Next ==
    \/ ApiProcessPapers
    \/ ApiSavePdf
    \/ ApiValidate
    \/ MainProcessPapers
    \/ MainSavePdf
    \/ MainRunSystem
    \/ GradioProcess
    \/ ProcessPdf
    \/ ProcessDoi
    \/ ProcessUrl
    \/ FinalSynthesis
    \/ ApiReturn
    \/ ApiError
    \/ PlainReturn
    \/ PlainError

Spec == Init /\ [][Next]_vars

----------------------------------------------------------------------------
(* DELETE /files over the directories it can find *)

\* names in the output directory: audio of the pipeline, uploads, and others
FileUniverse ==
    { <<"f", "i", "n", "a", "l", "_", "s", "y", "n", "t", "h", "e", "s", "i", "s", ".", "m", "p", "3">>, AudioPath(DoiFilename(D1)), AudioPath(TrimFilename(UrlFilename(U2))),
      <<"a", ".", "w", "a", "v">>, <<"b", ".", "m", "4", "a">>, <<"n", ".", "t", "x", "t">>, <<"t", "m", "p", "1", ".", "p", "d", "f">>, <<"c", ".", "M", "P", "3">>, <<"m", "p", "3">>, <<"d", ".", "m", "p", "3">> }

DirChoices ==
    {[p \in {PathJoin(OUTPUT_DIR, Basename(n)) : n \in names} |->
        IF Basename(p) = <<"d", ".", "m", "p", "3">> THEN LockedFile ELSE OldFile] :
     names \in {ns \in SUBSET FileUniverse : Cardinality(ns) <= MaxFiles}}

FilesInit ==
    /\ fs \in DirChoices
    /\ pc = "off"
    /\ RunIdle
    /\ ReqIdle
    /\ del_response = NoResponse
    /\ FnIdle

FilesNext == DeleteAllAudioFiles

SpecFiles == FilesInit /\ [][FilesNext]_vars

----------------------------------------------------------------------------
(* Inputs of the function-level specification *)

TextAlphabet == {"a", "A", "b"}

ClassifyTexts == SeqsUpTo(TextAlphabet, MaxTextLen)

TopicLabels == {<<>>, <<"a">>, <<"A">>, <<"a", "a">>, <<"b">>, <<"a", "B">>, Unspecified}

TopicLists == SeqsUpTo(TopicLabels, MaxTopics)

\* paragraphs around the MinParaLen threshold, with and without padding
ParaChoices ==
    { <<>>, <<"a", "b">>,
      Rep("x", MinParaLen), Rep("x", MinParaLen + 1),
      <<" ">> \o Rep("x", MinParaLen) \o <<"\n">>,
      <<"\t", "a">> \o Rep("y", MinParaLen) \o <<" ">> }

SummaryTexts == {Join(ps, BlankLine) : ps \in SeqsUpTo(ParaChoices, MaxParas)}

FnInit ==
    /\ fn_pc = "ready"
    /\ \/ fn_text \in ClassifyTexts /\ fn_topics \in TopicLists
       \/ fn_text \in SummaryTexts /\ fn_topics = <<>>
    /\ fn_out = <<>>
    /\ fs = DirEmpty
    /\ pc = "off"
    /\ RunIdle
    /\ ReqIdle
    /\ del_response = NoResponse

CallClassify ==
    /\ fn_pc = "ready"
    /\ fn_pc' = "classified"
    /\ fn_out' = classify_topic(fn_text, fn_topics)
    /\ UNCHANGED <<fn_text, fn_topics, pipevars>>

CallSummary ==
    /\ fn_pc = "ready"
    /\ fn_pc' = "summarized"
    /\ \E model \in ModelOracles :
          fn_out' = generate_summary(fn_text, model)
    /\ UNCHANGED <<fn_text, fn_topics, pipevars>>

FnNext == CallClassify \/ CallSummary

SpecFn == FnInit /\ [][FnNext]_vars

----------------------------------------------------------------------------
(* Properties of classify_topic and generate_summary *)

\* C4 as stated: the label returned by classify_topic is an element of the
\* topic sequence, and it is "Unspecified" exactly when the sequence is empty
C4_AsStated ==
    fn_pc = "classified" =>
        /\ fn_out \in Elems(fn_topics)
        /\ (fn_out = Unspecified <=> fn_topics = <<>>)

\* C4 amended: for a non-empty topic sequence the label returned is an element
\* of it, for the empty sequence it is "Unspecified", and for a sequence that
\* does not hold the label "Unspecified" the result is "Unspecified" exactly
\* when the sequence is empty
C4_ClassifyMembership ==
    fn_pc = "classified" =>
        /\ fn_topics # <<>> => fn_out \in Elems(fn_topics)
        /\ fn_topics = <<>> => fn_out = Unspecified
        /\ Unspecified \notin Elems(fn_topics) =>
              (fn_out = Unspecified <=> fn_topics = <<>>)

C4_Witness ==
    /\ fn_pc = "classified"
    /\ fn_topics = <<>>
    /\ fn_text # <<>>
    /\ fn_out = Unspecified

\* the smallest index whose label has the maximal occurrence count
StableArgmax(text, topics) ==
    CHOOSE i \in 1..Len(topics) :
        /\ \A j \in 1..Len(topics) : TopicKey(text, topics[j]) <= TopicKey(text, topics[i])
        /\ \A j \in 1..(i - 1) : TopicKey(text, topics[j]) < TopicKey(text, topics[i])

\* C5: for a non-empty topic sequence classify_topic returns the label at the
\* smallest index among the labels of maximal case-insensitive occurrence
\* count, ties (all-zero counts included) going to the earlier label
C5_StableArgmax ==
    (fn_pc = "classified" /\ fn_topics # <<>>) =>
        fn_out = fn_topics[StableArgmax(fn_text, fn_topics)]

C5_Witness ==
    /\ fn_pc = "classified"
    /\ Len(fn_topics) = 2
    /\ Lower(fn_topics[1]) # Lower(fn_topics[2])
    /\ TopicKey(fn_text, fn_topics[1]) = TopicKey(fn_text, fn_topics[2])
    /\ TopicKey(fn_text, fn_topics[1]) > 0
    /\ fn_out = fn_topics[1]

AllParagraphsShort(text) ==
    \A i \in 1..Len(Split(text, BlankLine)) :
        Len(Strip(Split(text, BlankLine)[i])) <= MinParaLen

\* C6 as stated: a text whose paragraphs all have trimmed length at most 100
\* is summarized to "Summary unavailable.", and generate_summary never returns
\* the empty string, whatever the model does with the empty batch
C6_AsStated ==
    fn_pc = "summarized" =>
        /\ AllParagraphsShort(fn_text) => fn_out = Placeholder
        /\ fn_out # <<>>

----------------------------------------------------------------------------
(* Properties of run_system and of the request handlers *)

\* run_system has returned its result (to the handler, or through it)
Returned ==
    \/ pc = "returned"
    \/ pc = "done" /\ response.kind = "result"

NoItems == pdf_paths = <<>> /\ req.doi_list = <<>> /\ req.urls = <<>>

\* C1: run_system called with no PDF, no DOI and no URL returns synthesis "",
\* synthesis_audio null and no citation, calls neither the summarizer nor the
\* audio synthesizer and writes no file
C1_EmptyRun ==
    (invoked /\ NoItems) =>
        /\ pc # "raised"
        /\ n_summ = 0
        /\ n_audio = 0
        /\ writes = <<>>
        /\ fs \in InitialDirs
        /\ Returned =>
              /\ result.synthesis = <<>>
              /\ result.synthesis_audio = None
              /\ result.citations = <<>>

C1_Witness ==
    /\ pc = "done"
    /\ invoked
    /\ NoItems
    /\ req.topic_list # <<>>
    /\ response.kind = "result"
    /\ result = EmptyResult

\* the elements of seq at the positions where mask is TRUE, in order
Masked(seq, mask) ==
    LET kept == SelectSeq([i \in 1..Len(seq) |-> i], LAMBDA i : mask[i])
    IN [k \in 1..Len(kept) |-> seq[kept[k]]]

Sources(cits) == [i \in 1..Len(cits) |-> cits[i].source]

\* C2: when run_system returns, the sources of the citations are the PDF
\* paths, then the DOIs whose resolution gave no error marker, then the URLs,
\* each in the order given, one record each and no other record
C2_CitationsInOrder ==
    Returned =>
        /\ Len(resolve_log) = Len(req.doi_list)
        /\ Sources(result.citations) =
              pdf_paths \o Masked(req.doi_list, resolve_log) \o req.urls

C2_Witness ==
    /\ Returned
    /\ req.doi_list = <<D1, D2>>
    /\ resolve_log = <<FALSE, TRUE>>
    /\ Sources(result.citations) = <<D2>>

\* C3 as stated: with no PDF, no URL and one DOI that resolves, run_system
\* (its text-to-speech engine working) returns one citation whose source is
\* that DOI and a non-null synthesis_audio, and the synthesis is what the
\* summarizer answers for that item's summary
C3_AsStated ==
    (invoked /\ pdf_paths = <<>> /\ req.urls = <<>> /\ Len(req.doi_list) = 1
        /\ resolve_log = <<TRUE>> /\ ~engine_failed
        /\ pc \in {"raised", "returned", "done"}) =>
        /\ Returned
        /\ Len(result.citations) = 1
        /\ result.citations[1].source = req.doi_list[1]
        /\ result.synthesis_audio # None
        /\ synth_in = all_summaries[1]
        /\ result.synthesis \in Summaries(all_summaries[1])

\* the URL without its scheme and with its slashes replaced
C7_Sanitized(url) ==
    Replace(Replace(Replace(url, <<"h", "t", "t", "p", "s", ":", "/", "/">>, <<>>), <<"h", "t", "t", "p", ":", "/", "/">>, <<>>), <<"/">>, <<"_">>)

C7_Min(a, b) == IF a < b THEN a ELSE b

\* C7: the audio file of a URL item is named by the first min(30, length)
\* characters of the sanitized URL followed by ".mp3", inside the output
\* directory
C7_UrlFileName ==
    \A i \in 1..Len(citations) :
        citations[i].source \in UrlSet =>
            LET sanitized == C7_Sanitized(citations[i].source)
                base == SubSeq(sanitized, 1, C7_Min(MaxUrlName, Len(sanitized)))
            IN /\ Len(base) <= MaxUrlName
               /\ citations[i].audio = OUTPUT_DIR \o <<"/">> \o base \o <<".", "m", "p", "3">>
               /\ citations[i].audio \in Elems(writes)
               /\ citations[i].audio \in DOMAIN fs
               /\ fs[citations[i].audio].kind = "audio"

C7_Witness ==
    \E i \in 1..Len(citations) :
        /\ citations[i].source = U2
        /\ Len(C7_Sanitized(U2)) > MaxUrlName
        /\ Len(Basename(citations[i].audio)) = MaxUrlName + Len(Mp3)

C8_IsAudio(path) ==
    \/ EndsWith(path, <<".", "m", "p", "3">>)
    \/ EndsWith(path, <<".", "w", "a", "v">>)
    \/ EndsWith(path, <<".", "m", "4", "a">>)

C8_AudioFiles(files) == {p \in DOMAIN files : C8_IsAudio(p)}

\* C8: a DELETE /files that returns successfully leaves no file ending in
\* .mp3, .wav or .m4a in the output directory, removes nothing else, and
\* answers with the number of such files present when it started
C8_BulkDelete ==
    [][(del_response = NoResponse /\ del_response'.status = 200) =>
          /\ C8_AudioFiles(fs') = {}
          /\ DOMAIN fs' = DOMAIN fs \ C8_AudioFiles(fs)
          /\ del_response'.deleted_count = Cardinality(C8_AudioFiles(fs))]_vars

C8_Witness ==
    /\ del_response.status = 200
    /\ del_response.deleted_count = 3
    /\ DOMAIN fs # {}

\* C9 as stated: a POST /process whose data field is not parseable, or which
\* supplies no PDF, no DOI and no URL, is answered with HTTP 400 and never
\* calls run_system
C9_AsStated ==
    (req.flow \in {"api", "main"}
        /\ (req.data = "bad"
              \/ (req.uploads = <<>> /\ req.doi_list = <<>> /\ req.urls = <<>>))) =>
        /\ ~invoked
        /\ pc = "done" => response.status = 400

\* C10 as stated: once a POST /process of the API flow has finished, with a
\* result or with an error, every temporary PDF copy it wrote is gone unless
\* the deletion of that file failed
C10_AsStated ==
    (req.flow = "api" /\ pc = "done") =>
        \A p \in tmp_written : p \notin DOMAIN fs \/ p \in unlink_failed

\* C11: when run_system returns, synthesis_audio is non-null exactly when a
\* summary was collected, which is exactly when there is a citation; a
\* non-null synthesis_audio is outputs/final_synthesis.mp3, that file is the
\* last one the run wrote, after the audio of every citation, and the
\* synthesis is what the summarizer answers for the collected summaries
\* joined in collection order
C11_FinalSynthesis ==
    pc = "returned" =>
        /\ (result.synthesis_audio # None) <=> (all_summaries # <<>>)
        /\ (all_summaries # <<>>) <=> (result.citations # <<>>)
        /\ Len(all_summaries) = Len(result.citations)
        /\ result.synthesis_audio # None =>
              /\ result.synthesis_audio = OUTPUT_DIR \o <<"/">> \o <<"f", "i", "n", "a", "l", "_", "s", "y", "n", "t", "h", "e", "s", "i", "s", ".", "m", "p", "3">>
              /\ result.synthesis_audio \in DOMAIN fs
              /\ fs[result.synthesis_audio].kind = "audio"
              /\ fs[result.synthesis_audio].src = FinalName
              /\ Len(writes) = Len(result.citations) + 1
              /\ writes[Len(writes)] = result.synthesis_audio
              /\ \A i \in 1..Len(result.citations) :
                    writes[i] = result.citations[i].audio
              /\ synth_in = Join(all_summaries, <<" ">>)
              /\ result.synthesis \in Summaries(synth_in)
        /\ result.synthesis_audio = None =>
              /\ result.synthesis = <<>>
              /\ synth_in = None

C11_Witness ==
    /\ pc = "returned"
    /\ Len(all_summaries) = 2
    /\ all_summaries[1] # all_summaries[2]
    /\ result.synthesis_audio = AudioPath(FinalName)
    /\ Len(writes) = 3
    /\ result.synthesis = SumLong

\* run_system was left by a hard failure: a PDF that could not be read, or a
\* generate_audio call that failed
HardFailure(by) == by \in {"extract_text_from_pdf", "generate_audio"}

\* C12: the step in which a PDF cannot be parsed or a generate_audio call
\* fails ends run_system without a result; after it no item is processed, no
\* summary, citation or audio file is added and nothing is returned, the only
\* step left is the handler's answer, which is an error, and HTTP 500 in the
\* API flow
C12_HardFailureAborts ==
    [][/\ (raised_by = "none" /\ HardFailure(raised_by')) =>
              /\ pc' = "raised"
              /\ pos' = pos
              /\ citations' = citations
              /\ all_summaries' = all_summaries
              /\ result' = EmptyResult
       /\ HardFailure(raised_by) =>
              /\ pc = "raised"
              /\ UNCHANGED <<pos, all_summaries, citations, n_summ, n_audio,
                             writes, fs, result, raised_by>>
              /\ pc' = "done"
              /\ response'.kind = "error"
              /\ req.flow = "api" => response'.status = 500]_vars

C12_Witness ==
    /\ req.flow = "api"
    /\ pc = "done"
    /\ raised_by = "generate_audio"
    /\ Len(pdf_paths) = 2
    /\ pos = 1
    /\ n_audio = 1
    /\ result = EmptyResult
    /\ response = [status |-> 500, kind |-> "error"]

\* C13 as stated: the step that processes a DOI whose resolution returns the
\* error marker calls neither the summarizer nor the audio synthesizer, adds
\* no file, summary or citation and goes on to the next item; the step that
\* processes a URL whose fetch raised (the text-to-speech engine working)
\* summarizes the empty content, synthesizes its audio, records exactly one
\* citation for the URL and goes on to the next item
C13_AsStated ==
    [][/\ resolve_log' = Append(resolve_log, FALSE) =>
              /\ pc' = "run"
              /\ pos' = pos + 1
              /\ UNCHANGED <<n_summ, n_audio, writes, fs, all_summaries, citations>>
       /\ (fetch_log' = Append(fetch_log, FALSE) /\ ~engine_failed') =>
              /\ pc' = "run"
              /\ pos' = pos + 1
              /\ n_summ' = n_summ + 1
              /\ n_audio' = n_audio + 1
              /\ Len(writes') = Len(writes) + 1
              /\ Len(all_summaries') = Len(all_summaries) + 1
              /\ Len(citations') = Len(citations) + 1
              /\ citations'[Len(citations')].source = req.urls[Len(fetch_log')]
              /\ citations'[Len(citations')].audio \in DOMAIN fs']_vars

\* C14: every tts.save of run_system, onto a new name or onto the name of a
\* file that is already in the output directory (left by an earlier request
\* or written for an earlier item), leaves at that path the audio of the
\* text just spoken and touches no other file; that the file existed is no
\* error: with the engine working the item is cited with that path, or the
\* path is returned as synthesis_audio, and the citations made before keep
\* the path they were given
C14_SilentOverwrite ==
    [][Len(writes') = Len(writes) + 1 =>
          LET p == writes'[Len(writes')]
          IN /\ p \in DOMAIN fs'
             /\ fs'[p].kind = "audio"
             /\ DOMAIN fs' = DOMAIN fs \cup {p}
             /\ \A q \in DOMAIN fs \ {p} : fs'[q] = fs[q]
             /\ SubSeq(citations', 1, Len(citations)) = citations
             /\ ~engine_failed' =>
                   /\ fs'[p].whole
                   /\ pc' \in {"run", "returned"}
                   /\ pc' = "run" =>
                         /\ Len(citations') = Len(citations) + 1
                         /\ citations'[Len(citations')].audio = p
                         /\ fs'[p].src = citations'[Len(citations')].source
                   /\ pc' = "returned" =>
                         /\ result'.synthesis_audio = p
                         /\ result'.citations = citations
                         /\ fs'[p].src = FinalName]_vars

\* two URLs of one request share their 30-character file name: the path cited
\* for the first holds the audio of the second, and the final_synthesis.mp3
\* an earlier request left now holds this request's synthesis
C14_Witness ==
    /\ req.flow = "api"
    /\ pc = "done"
    /\ response = [status |-> 200, kind |-> "result"]
    /\ Len(result.citations) = 2
    /\ result.citations[1].source # result.citations[2].source
    /\ result.citations[1].audio = result.citations[2].audio
    /\ fs[result.citations[1].audio].src = result.citations[2].source
    /\ \E d \in InitialDirs : /\ result.synthesis_audio \in DOMAIN d
                              /\ d[result.synthesis_audio].kind = "old"
    /\ fs[result.synthesis_audio].kind = "audio"

\* C15: a POST /process of the API flow answered with HTTP 400 has written
\* nothing: the output directory is as the request found it, no temporary
\* PDF copy was made and run_system was not called; a data field that does
\* not parse is rejected before the first upload is looked at, and the
\* no-input rejection comes only for a request without uploads
C15_RejectionWritesNothing ==
    (req.flow = "api" /\ pc = "done" /\ response.status = 400) =>
        /\ fs \in InitialDirs
        /\ tmp_written = {}
        /\ pdf_paths = <<>>
        /\ writes = <<>>
        /\ ~invoked
        /\ req.data = "bad" => pos = 1
        /\ req.data # "bad" =>
              /\ req.uploads = <<>>
              /\ req.doi_list = <<>>
              /\ req.urls = <<>>

C15_Witness ==
    /\ req.flow = "api"
    /\ pc = "done"
    /\ response = [status |-> 400, kind |-> "error"]
    /\ req.data = "bad"
    /\ Len(req.uploads) = 2
    /\ fs = DirOld

====
